---- MODULE Spec2Model ----
(***************************************************************************)
(* TuringFeeds: the guarded in-memory repository of databases, its         *)
(* add / update / remove operations and its snapshot persistence           *)
(* (create / commit / init), as implemented in                             *)
(* TuringFeeds/src/engine.rs.                                              *)
(*                                                                         *)
(* The snapshot file is a sequence of RON tokens.  commit opens the file   *)
(* without truncating it and writes from offset 0; init reads the whole    *)
(* file and parses it.  Tasks are the async callers of the repository.     *)
(***************************************************************************)
EXTENDS Integers, Sequences, FiniteSets, TLC

\* ------------------------------------------------------------------ bounds

\* Largest TAI64N instant a database or document value carries.
MaxTime == 2

\* Largest number of operations called in one run.
MaxCalls == 7

\* Largest number of tokens a short first write of write_all transfers.
MaxShortWrite == 2

\* ---------------------------------------------------------------- universe

Tasks == {"t1", "t2"}

\* Database identifiers; "" is String::default(), the identifier of new().
Idents == {"", "a"}

TimeRange == 1..MaxTime

\* Option<T>: None is the empty tuple, Some(x) the one-element tuple.
None == <<>>

Some(x) == <<x>>

EmptyMap == <<>>

\* HashMap::insert: the value under k is replaced or created.
MapInsert(m, k, v) == [x \in (DOMAIN m) \cup {k} |-> IF x = k THEN v ELSE m[x]]

\* HashMap::remove.
MapRemove(m, k) == [x \in (DOMAIN m) \ {k} |-> m[x]]

\* struct TFDocument
TFDocument(id, ct, mt) == [identifier |-> id, create_time |-> ct, modified_time |-> mt]

\* struct TuringFeedsDB
TuringFeedsDB(id, dt, docs) == [identifier |-> id, datetime |-> dt, document_list |-> docs]

\* The document lists of the database values handed to the repository: a
\* database as new() and identifier() leave it, with no document map.
DocLists == {None}

\* The database values callers pass to memdb_add / memdb_update.
DBValues == {TuringFeedsDB(id, dt, dl) : id \in Idents, dt \in TimeRange, dl \in DocLists}

\* ------------------------------------------------------ RON serialization

\* Tokens are pairs <<kind, text>>: punctuation, field name, string, number.
P(c) == <<"p", c>>

K(name) == <<"k", name>>

S(str) == <<"s", str>>

N(n) == <<"n", ToString(n)>>

\* The orders in which a HashMap may iterate over the keys in ks.
Orders(ks) == {o \in [1..Cardinality(ks) -> ks] : \A i, j \in DOMAIN o : o[i] = o[j] => i = j}

SerDoc(d) ==
    << P("("), K("identifier"), S(d.identifier), P(","),
       K("create_time"), N(d.create_time), P(","),
       K("modified_time"), N(d.modified_time), P(")") >>

RECURSIVE SerDocEntries(_, _)
SerDocEntries(m, o) ==
    IF o = <<>> THEN <<>>
    ELSE << S(Head(o)), P(":") >> \o SerDoc(m[Head(o)])
         \o (IF Tail(o) = <<>> THEN <<>> ELSE << P(",") >> \o SerDocEntries(m, Tail(o)))

\* Every text ron::ser::to_string may produce for a document map.
SerDocMap(m) == { << P("{") >> \o SerDocEntries(m, o) \o << P("}") >> : o \in Orders(DOMAIN m) }

SerDocList(dl) ==
    IF dl = None THEN { << K("None") >> }
    ELSE { << K("Some"), P("(") >> \o t \o << P(")") >> : t \in SerDocMap(dl[1]) }

SerDB(db) ==
    { << P("("), K("identifier"), S(db.identifier), P(","),
         K("datetime"), N(db.datetime), P(","),
         K("document_list") >> \o t \o << P(")") >> : t \in SerDocList(db.document_list) }

RECURSIVE SerDBEntries(_, _)
SerDBEntries(m, o) ==
    IF o = <<>> THEN { <<>> }
    ELSE { << S(Head(o)), P(":") >> \o e
           \o (IF Tail(o) = <<>> THEN <<>> ELSE << P(",") >> \o rest) :
           e \in SerDB(m[Head(o)]), rest \in SerDBEntries(m, Tail(o)) }

\* Every text ron::ser::to_string(&*lock) may produce for the repository map.
Serialize(m) ==
    UNION { { << P("{") >> \o t \o << P("}") >> : t \in SerDBEntries(m, o) } :
            o \in Orders(DOMAIN m) }

\* ---------------------------------------------------- RON deserialization

EOF == <<"eof", "">>

At(s, i) == IF i \in 1..Len(s) THEN s[i] ELSE EOF

\* A parse result: the value read and the position after it, or a failure.
Fail == [ok |-> FALSE, val |-> <<>>, pos |-> 0]

Done(v, i) == [ok |-> TRUE, val |-> v, pos |-> i]

IsNum(t) == t[1] = "n" /\ \E n \in 0..(MaxTime + 1) : ToString(n) = t[2]

Num(t) == CHOOSE n \in 0..(MaxTime + 1) : ToString(n) = t[2]

ParseDoc(s, i) ==
    IF /\ At(s, i) = P("(")
       /\ At(s, i + 1) = K("identifier")
       /\ At(s, i + 2)[1] = "s"
       /\ At(s, i + 3) = P(",")
       /\ At(s, i + 4) = K("create_time")
       /\ IsNum(At(s, i + 5))
       /\ At(s, i + 6) = P(",")
       /\ At(s, i + 7) = K("modified_time")
       /\ IsNum(At(s, i + 8))
       /\ At(s, i + 9) = P(")")
    THEN Done(TFDocument(At(s, i + 2)[2], Num(At(s, i + 5)), Num(At(s, i + 8))), i + 10)
    ELSE Fail

\* The entries of a map after "{": key ":" value, separated by ",", a
\* trailing "," allowed, closed by "}".  A repeated key keeps the later value.
RECURSIVE ParseDocEntries(_, _, _)
RECURSIVE ParseDocEntry(_, _, _, _)
ParseDocEntry(s, acc, key, v) ==
    IF ~v.ok THEN Fail
    ELSE IF At(s, v.pos) = P(",") THEN ParseDocEntries(s, v.pos + 1, MapInsert(acc, key, v.val))
    ELSE IF At(s, v.pos) = P("}") THEN Done(MapInsert(acc, key, v.val), v.pos + 1)
    ELSE Fail

ParseDocEntries(s, i, acc) ==
    IF At(s, i) = P("}") THEN Done(acc, i + 1)
    ELSE IF At(s, i)[1] = "s" /\ At(s, i + 1) = P(":")
    THEN ParseDocEntry(s, acc, At(s, i)[2], ParseDoc(s, i + 2))
    ELSE Fail

ParseDocMap(s, i) == IF At(s, i) = P("{") THEN ParseDocEntries(s, i + 1, EmptyMap) ELSE Fail

\* Some( map ): the closing parenthesis after the map m.
ParseSome(s, m) == IF m.ok /\ At(s, m.pos) = P(")") THEN Done(Some(m.val), m.pos + 1) ELSE Fail

ParseDocList(s, i) ==
    IF At(s, i) = K("None") THEN Done(None, i + 1)
    ELSE IF At(s, i) = K("Some") /\ At(s, i + 1) = P("(")
    THEN ParseSome(s, ParseDocMap(s, i + 2))
    ELSE Fail

\* The end of a database struct whose document_list is dl.
ParseDBEnd(s, id, dt, dl) ==
    IF dl.ok /\ At(s, dl.pos) = P(")")
    THEN Done(TuringFeedsDB(id, dt, dl.val), dl.pos + 1)
    ELSE Fail

ParseDB(s, i) ==
    IF /\ At(s, i) = P("(")
       /\ At(s, i + 1) = K("identifier")
       /\ At(s, i + 2)[1] = "s"
       /\ At(s, i + 3) = P(",")
       /\ At(s, i + 4) = K("datetime")
       /\ IsNum(At(s, i + 5))
       /\ At(s, i + 6) = P(",")
       /\ At(s, i + 7) = K("document_list")
    THEN ParseDBEnd(s, At(s, i + 2)[2], Num(At(s, i + 5)), ParseDocList(s, i + 8))
    ELSE Fail

RECURSIVE ParseDBEntries(_, _, _)
RECURSIVE ParseDBEntry(_, _, _, _)
ParseDBEntry(s, acc, key, v) ==
    IF ~v.ok THEN Fail
    ELSE IF At(s, v.pos) = P(",") THEN ParseDBEntries(s, v.pos + 1, MapInsert(acc, key, v.val))
    ELSE IF At(s, v.pos) = P("}") THEN Done(MapInsert(acc, key, v.val), v.pos + 1)
    ELSE Fail

ParseDBEntries(s, i, acc) ==
    IF At(s, i) = P("}") THEN Done(acc, i + 1)
    ELSE IF At(s, i)[1] = "s" /\ At(s, i + 1) = P(":")
    THEN ParseDBEntry(s, acc, At(s, i)[2], ParseDB(s, i + 2))
    ELSE Fail

\* The whole input must be consumed: anything after the closing "}" is an error.
ParseEnd(s, r) == IF r.ok /\ r.pos = Len(s) + 1 THEN r ELSE Fail

\* ron::de::from_str::<HashMap<UserDefinedName, TuringFeedsDB>>(&contents)
Deserialize(s) ==
    IF At(s, 1) = P("{") THEN ParseEnd(s, ParseDBEntries(s, 2, EmptyMap)) ELSE Fail

\* ------------------------------------------------------------------ results

\* A DbOps / FileOps code, or Ok(self) of init ("InitOk"), with the value
\* that comes with it.
Ret(code, v) == [code |-> code, kind |-> "", val |-> v]

\* Err(TuringFeedsError::IoError(error)); kind is error.kind().
IoError(kind) == [code |-> "IoError", kind |-> kind, val |-> None]

\* Err(..) of a ron::de::Error, converted by `?`.
RonDeError == [code |-> "RonDeError", kind |-> "", val |-> None]

\* No operation returned in the last step.
NoRet == [task |-> "", op |-> "", arg |-> <<>>, res |-> Ret("", None)]

\* Operation op of task p, called with argument a, returned r in the last step.
Returned(p, op, a, r) == [task |-> p, op |-> op, arg |-> a, res |-> r]

\* -------------------------------------------------------------------- state

VARIABLES
    dirExists,   \* the directory TuringFeedsRepo exists
    file,        \* TuringFeedsRepo/REPO.log: None, or Some(its content)
    dbs,         \* TuringFeeds.dbs: the map behind the RwLock
    readers,     \* the tasks that hold a read guard of dbs
    writer,      \* None, or Some(the task that holds the write guard)
    pc,          \* where each task is inside the operation it runs
    arg,         \* the argument of the running memdb_* call: values, or [key |-> key]
    data,        \* commit: the serialized text; init: the deserialized map
    off,         \* commit: how much of data its file handle has written
    ret,         \* the call that returned in the last step and its result, if one did
    committed,   \* Some(map) while the last file activity is a commit of map that returned WriteTrue
    calls,       \* the number of operations called so far
    whole,       \* the file's content is the whole text of one commit
    now,         \* the instant TAI64N::now() returns
    db,          \* the TuringFeedsDB value a caller builds: None, or Some(it)
    doc,         \* the TFDocument value a caller builds: None, or Some(it)
    eret         \* the builder call made in the last step, if one was

\* The values callers build and the clock they read.
evars == <<now, db, doc, eret>>

\* The repository, its lock, its file and its callers.
rvars == <<dirExists, file, dbs, readers, writer, pc, arg, data, off, ret, committed, calls, whole>>

vars == <<rvars, evars>>

\* No builder call was made in the last step.
NoEret == [op |-> "", key |-> "", code |-> "", had |-> FALSE, dt0 |-> 0]

Init ==
    /\ dirExists = FALSE
    /\ file = None
    /\ dbs = EmptyMap
    /\ readers = {}
    /\ writer = None
    /\ pc = [p \in Tasks |-> "idle"]
    /\ arg = [p \in Tasks |-> <<>>]
    /\ data = [p \in Tasks |-> <<>>]
    /\ off = [p \in Tasks |-> 0]
    /\ ret = NoRet
    /\ committed = None
    /\ calls = 0
    /\ whole = FALSE
    /\ now = 1
    /\ db = None
    /\ doc = None
    /\ eret = NoEret

\* The positions at which a task holds the repository by `&mut self`.
MutPcs == {"add_lock", "add_insert", "update_lock", "update_insert"}

\* `&mut self`: no other task has a call on the repository in progress.
Exclusive(p) == pc[p] = "idle" /\ \A q \in Tasks \ {p} : pc[q] = "idle"

\* `&self`: no other task holds the repository by `&mut self`.
Shared(p) == pc[p] = "idle" /\ \A q \in Tasks \ {p} : pc[q] \notin MutPcs

\* A task calls an operation.
Call == calls < MaxCalls /\ calls' = calls + 1

\* RwLock::write(): granted when nobody holds a guard.
WriteLockFree == writer = None /\ readers = {}

\* RwLock::read(): granted when no writer holds the guard.
ReadLockFree == writer = None

\* Operation op of task p, called with a, returns r; the task is idle again.
Return(p, op, a, r) ==
    /\ pc' = [pc EXCEPT ![p] = "idle"]
    /\ ret' = Returned(p, op, a, r)
    /\ arg' = [arg EXCEPT ![p] = <<>>]
    /\ data' = [data EXCEPT ![p] = <<>>]
    /\ off' = [off EXCEPT ![p] = 0]

\* The task moves on inside its operation; nothing returns.
Goto(p, where) == pc' = [pc EXCEPT ![p] = where] /\ ret' = NoRet

\* ------------------------------------------------------------------- create

\* What DirBuilder::new().recursive(false).create("TuringFeedsRepo") may answer.
DirOutcomes == IF dirExists THEN {"AlreadyExists"}
               ELSE {"Ok", "PermissionDenied", "Interrupted", "Other"}

\* The value create() returns for an answer of DirBuilder.
CreateResult(outcome) == IF outcome = "Ok" THEN Ret("CreateTrue", None) ELSE IoError(outcome)

\* The answers DirBuilder can give.
AllDirOutcomes == {"Ok", "AlreadyExists", "PermissionDenied", "Interrupted", "Other"}

\* The value the earlier create() (src/src/engine.rs) returns for an answer
\* of DirBuilder: three error kinds become FileOps codes.
CreateResultV0(outcome) ==
    CASE outcome = "Ok" -> Ret("CreateTrue", None)
      [] outcome = "PermissionDenied" -> Ret("WriteDenied", None)
      [] outcome = "AlreadyExists" -> Ret("AlreadyExists", None)
      [] outcome = "Interrupted" -> Ret("Interrupted", None)
      [] OTHER -> IoError(outcome)

create(p) ==
    /\ pc[p] = "idle"
    /\ \E outcome \in DirOutcomes :
          /\ dirExists' = (dirExists \/ outcome = "Ok")
          /\ Return(p, "create", <<>>, CreateResult(outcome))
    /\ UNCHANGED <<file, dbs, readers, writer, committed>>
    /\ Call
    /\ UNCHANGED <<whole, evars>>

\* ------------------------------------------------------------------- commit

\* The number of bytes a token takes in the file; a field name is written
\* with its colon.  The non-empty identifiers of the model are one character
\* long; an instant is written in one width.
Width(t) ==
    CASE t[1] = "s" -> (IF t[2] = "" THEN 2 ELSE 3)
      [] t[1] = "k" /\ t[2] = "identifier" -> 11
      [] t[1] = "k" /\ t[2] = "datetime" -> 9
      [] t[1] = "k" /\ t[2] = "document_list" -> 14
      [] t[1] = "k" /\ t[2] = "create_time" -> 12
      [] t[1] = "k" /\ t[2] = "modified_time" -> 14
      [] t[1] = "k" /\ t[2] \in {"None", "Some"} -> 4
      [] OTHER -> 1

RECURSIVE Bytes(_)
\* The number of bytes of a text.
Bytes(s) == IF s = <<>> THEN 0 ELSE Width(Head(s)) + Bytes(Tail(s))

\* n bytes that are the rest of a token cut by a write: no token of RON.
Cut(n) == [i \in 1..n |-> <<"cut", "">>]

RECURSIVE Before(_, _)
\* The first b bytes of content f.
Before(f, b) ==
    IF b = 0 \/ f = <<>> THEN <<>>
    ELSE IF Width(Head(f)) <= b THEN << Head(f) >> \o Before(Tail(f), b - Width(Head(f)))
    ELSE Cut(b)

RECURSIVE After(_, _)
\* Content f without its first e bytes.
After(f, e) ==
    IF f = <<>> THEN <<>>
    ELSE IF e = 0 THEN f
    ELSE IF Width(Head(f)) <= e THEN After(Tail(f), e - Width(Head(f)))
    ELSE Cut(Width(Head(f)) - e) \o Tail(f)

\* Writing chunk at byte offset o into content f (no truncation, no append):
\* the bytes under the chunk are replaced, the bytes after it stay.
Overwrite(f, o, chunk) == Before(f, o) \o chunk \o After(f, o + Bytes(chunk))

\* The byte offset of the file handle of commit p: what it has written.
FilePos(p) == Bytes(SubSeq(data[p], 1, off[p]))

\* commit_open as it would be if the open also created the missing directory.
commit_open_mkdir(p) ==
    /\ Shared(p)
    /\ file' = IF file = None THEN Some(<<>>) ELSE file
    /\ Goto(p, "commit_lock")
    /\ UNCHANGED <<arg, data, off>>
    /\ UNCHANGED <<dirExists, dbs, readers, writer, committed>>
    /\ Call
    /\ UNCHANGED <<whole, evars>>

\* OpenOptions::new().create(true).read(false).write(true).open(repo_path)
commit_open(p) ==
    /\ Shared(p)
    /\ \/ /\ dirExists
          /\ file' = IF file = None THEN Some(<<>>) ELSE file
          /\ Goto(p, "commit_lock")
          /\ UNCHANGED <<arg, data, off>>
       \/ /\ ~dirExists
          /\ Return(p, "commit", <<>>, IoError("NotFound"))
          /\ UNCHANGED file
       \/ /\ dirExists
          /\ Return(p, "commit", <<>>, IoError("PermissionDenied"))
          /\ UNCHANGED file
    /\ UNCHANGED <<dirExists, dbs, readers, writer, committed>>
    /\ Call
    /\ UNCHANGED <<whole, evars>>

\* let lock = self.dbs.read().await; let data = ron::ser::to_string(&*lock)?;
commit_lock(p) ==
    /\ pc[p] = "commit_lock"
    /\ ReadLockFree
    /\ readers' = readers \cup {p}
    /\ \E t \in Serialize(dbs) : data' = [data EXCEPT ![p] = t]
    /\ Goto(p, "commit_write")
    /\ UNCHANGED <<dirExists, file, dbs, writer, arg, off, committed>>
    /\ UNCHANGED <<calls, whole, evars>>

\* The sizes of the next write: the first write may be short, the second
\* writes what is left.
ChunkSizes(p) ==
    IF off[p] = 0
    THEN {n \in 1..MaxShortWrite : n < Len(data[p])} \cup {Len(data[p])}
    ELSE {Len(data[p]) - off[p]}

\* Whether the file holds the whole text of one commit once task p has
\* written the next n tokens of its text: it then holds p's text, or it held
\* the whole text of a commit and these tokens change nothing.
WholeAfter(p, n) ==
    LET f == Overwrite(file[1], FilePos(p), SubSeq(data[p], off[p] + 1, off[p] + n))
    IN  f = data[p] \/ (whole /\ f = file[1])

\* commit_write as it would be if a failed write returned with the read
\* guard still held.
commit_write_leak(p) ==
    /\ pc[p] = "commit_write"
    /\ \/ \E n \in ChunkSizes(p) :
             /\ file' = Some(Overwrite(file[1], FilePos(p), SubSeq(data[p], off[p] + 1, off[p] + n)))
             /\ off' = [off EXCEPT ![p] = off[p] + n]
             /\ Goto(p, IF off[p] + n = Len(data[p]) THEN "commit_sync" ELSE "commit_write")
             /\ committed' = None
             /\ whole' = WholeAfter(p, n)
             /\ UNCHANGED <<readers, arg, data>>
       \/ /\ Return(p, "commit", <<>>, IoError("Other"))
          /\ UNCHANGED <<readers, file, committed, whole>>
    /\ UNCHANGED <<dirExists, dbs, writer>>
    /\ UNCHANGED <<calls, evars>>

\* commit_write as it would be with write in place of write_all: one write,
\* short or not, and commit goes on to the flush.
commit_write_once(p) ==
    /\ pc[p] = "commit_write"
    /\ \/ \E n \in ChunkSizes(p) :
             /\ file' = Some(Overwrite(file[1], FilePos(p), SubSeq(data[p], off[p] + 1, off[p] + n)))
             /\ off' = [off EXCEPT ![p] = off[p] + n]
             /\ Goto(p, "commit_sync")
             /\ committed' = None
             /\ whole' = WholeAfter(p, n)
             /\ UNCHANGED <<readers, arg, data>>
       \/ /\ Return(p, "commit", <<>>, IoError("Other"))
          /\ readers' = readers \ {p}
          /\ UNCHANGED <<file, committed, whole>>
    /\ UNCHANGED <<dirExists, dbs, writer>>
    /\ UNCHANGED <<calls, evars>>

\* file.write_all(&data.as_bytes().to_owned()).await?
commit_write(p) ==
    /\ pc[p] = "commit_write"
    /\ \/ \E n \in ChunkSizes(p) :
             /\ file' = Some(Overwrite(file[1], FilePos(p), SubSeq(data[p], off[p] + 1, off[p] + n)))
             /\ off' = [off EXCEPT ![p] = off[p] + n]
             /\ Goto(p, IF off[p] + n = Len(data[p]) THEN "commit_sync" ELSE "commit_write")
             /\ committed' = None
             /\ whole' = WholeAfter(p, n)
             /\ UNCHANGED <<readers, arg, data>>
       \/ /\ Return(p, "commit", <<>>, IoError("Other"))
          /\ readers' = readers \ {p}
          /\ UNCHANGED <<file, committed, whole>>
    /\ UNCHANGED <<dirExists, dbs, writer>>
    /\ UNCHANGED <<calls, evars>>

\* file.sync_all().await?; Ok(FileOps::WriteTrue)
commit_sync(p) ==
    /\ pc[p] = "commit_sync"
    /\ \/ /\ Return(p, "commit", <<>>, Ret("WriteTrue", None))
          /\ committed' = Some(dbs)
       \/ /\ Return(p, "commit", <<>>, IoError("Other"))
          /\ UNCHANGED committed
    /\ readers' = readers \ {p}
    /\ UNCHANGED <<dirExists, file, dbs, writer>>
    /\ UNCHANGED <<calls, whole, evars>>

commit(p) == commit_open(p) \/ commit_lock(p) \/ commit_write(p) \/ commit_sync(p)

\* --------------------------------------------------------------------- init

\* OpenOptions::new().create(false).read(true).write(true).open(repo_path)
init_open(p) ==
    /\ Shared(p)
    /\ \/ /\ file # None
          /\ Goto(p, "init_read")
          /\ UNCHANGED <<arg, data, off>>
       \/ /\ file = None
          /\ Return(p, "init", <<>>, IoError("NotFound"))
       \/ /\ file # None
          /\ Return(p, "init", <<>>, IoError("PermissionDenied"))
    /\ UNCHANGED <<dirExists, file, dbs, readers, writer, committed>>
    /\ Call
    /\ UNCHANGED <<whole, evars>>

\* init_read as it would be if a parse failure were replaced by an empty map.
init_read_or_default(p) ==
    /\ pc[p] = "init_read"
    /\ data' = [data EXCEPT ![p] =
                   IF Deserialize(file[1]).ok THEN Deserialize(file[1]).val ELSE EmptyMap]
    /\ Goto(p, "init_lock")
    /\ UNCHANGED <<arg, off>>
    /\ UNCHANGED <<dirExists, file, dbs, readers, writer, committed>>
    /\ UNCHANGED <<calls, whole, evars>>

\* file.read_to_string(&mut contents).await?; ron::de::from_str(&contents)?
init_read(p) ==
    /\ pc[p] = "init_read"
    /\ \/ /\ Deserialize(file[1]).ok
          /\ data' = [data EXCEPT ![p] = Deserialize(file[1]).val]
          /\ Goto(p, "init_lock")
          /\ UNCHANGED <<arg, off>>
       \/ /\ ~Deserialize(file[1]).ok
          /\ Return(p, "init", <<>>, RonDeError)
       \/ Return(p, "init", <<>>, IoError("Other"))
    /\ UNCHANGED <<dirExists, file, dbs, readers, writer, committed>>
    /\ UNCHANGED <<calls, whole, evars>>

\* let mut mutate_self = self.dbs.write().await;
init_lock(p) ==
    /\ pc[p] = "init_lock"
    /\ WriteLockFree
    /\ writer' = Some(p)
    /\ Goto(p, "init_swap")
    /\ UNCHANGED <<dirExists, file, dbs, readers, arg, data, off, committed>>
    /\ UNCHANGED <<calls, whole, evars>>

\* *mutate_self = data; Ok(self)
init_swap(p) ==
    /\ pc[p] = "init_swap"
    /\ dbs' = data[p]
    /\ writer' = None
    /\ Return(p, "init", <<>>, Ret("InitOk", None))
    /\ UNCHANGED <<dirExists, file, readers, committed>>
    /\ UNCHANGED <<calls, whole, evars>>

init(p) == init_open(p) \/ init_read(p) \/ init_lock(p) \/ init_swap(p)

\* ---------------------------------------------------------------- memdb_add

\* memdb_add_check as it would be if an occupied entry were overwritten.
memdb_add_check_upsert(p, values) ==
    /\ Exclusive(p)
    /\ Goto(p, "add_lock")
    /\ arg' = [arg EXCEPT ![p] = <<values>>]
    /\ UNCHANGED <<data, off>>
    /\ UNCHANGED <<dirExists, file, dbs, readers, writer, committed>>
    /\ Call
    /\ UNCHANGED <<whole, evars>>

\* memdb_add_check as it would be if the call took `&self`: other calls may
\* be in progress between the check and the insertion.
memdb_add_check_shared(p, values) ==
    /\ pc[p] = "idle"
    /\ IF values.identifier \in DOMAIN dbs
       THEN Return(p, "memdb_add", <<values>>, Ret("AlreadyExists", None))
       ELSE /\ Goto(p, "add_lock")
            /\ arg' = [arg EXCEPT ![p] = <<values>>]
            /\ UNCHANGED <<data, off>>
    /\ UNCHANGED <<dirExists, file, dbs, readers, writer, committed>>
    /\ Call
    /\ UNCHANGED <<whole, evars>>

\* self.dbs.get_mut().entry(values.identifier.clone())
memdb_add_check(p, values) ==
    /\ Exclusive(p)
    /\ IF values.identifier \in DOMAIN dbs
       THEN Return(p, "memdb_add", <<values>>, Ret("AlreadyExists", None))
       ELSE /\ Goto(p, "add_lock")
            /\ arg' = [arg EXCEPT ![p] = <<values>>]
            /\ UNCHANGED <<data, off>>
    /\ UNCHANGED <<dirExists, file, dbs, readers, writer, committed>>
    /\ Call
    /\ UNCHANGED <<whole, evars>>

\* let mut lock = self.dbs.write().await;
memdb_add_lock(p) ==
    /\ pc[p] = "add_lock"
    /\ WriteLockFree
    /\ writer' = Some(p)
    /\ Goto(p, "add_insert")
    /\ UNCHANGED <<dirExists, file, dbs, readers, arg, data, off, committed>>
    /\ UNCHANGED <<calls, whole, evars>>

\* lock.insert(values.identifier.clone(), values); (DbOps::Inserted, Some(self))
memdb_add_insert(p) ==
    /\ pc[p] = "add_insert"
    /\ dbs' = MapInsert(dbs, arg[p][1].identifier, arg[p][1])
    /\ writer' = None
    /\ Return(p, "memdb_add", arg[p], Ret("Inserted", None))
    /\ UNCHANGED <<dirExists, file, readers, committed>>
    /\ UNCHANGED <<calls, whole, evars>>

memdb_add(p) ==
    \/ \E values \in DBValues : memdb_add_check(p, values)
    \/ memdb_add_lock(p)
    \/ memdb_add_insert(p)

\* ------------------------------------------------------------- memdb_update

\* memdb_update_check as it would be if a vacant entry were filled.
memdb_update_check_upsert(p, values) ==
    /\ Exclusive(p)
    /\ Goto(p, "update_lock")
    /\ arg' = [arg EXCEPT ![p] = <<values>>]
    /\ UNCHANGED <<data, off>>
    /\ UNCHANGED <<dirExists, file, dbs, readers, writer, committed>>
    /\ Call
    /\ UNCHANGED <<whole, evars>>

\* self.dbs.get_mut().entry(values.identifier.clone())
memdb_update_check(p, values) ==
    /\ Exclusive(p)
    /\ IF values.identifier \notin DOMAIN dbs
       THEN Return(p, "memdb_update", <<values>>, Ret("KeyNotFound", None))
       ELSE /\ Goto(p, "update_lock")
            /\ arg' = [arg EXCEPT ![p] = <<values>>]
            /\ UNCHANGED <<data, off>>
    /\ UNCHANGED <<dirExists, file, dbs, readers, writer, committed>>
    /\ Call
    /\ UNCHANGED <<whole, evars>>

memdb_update_lock(p) ==
    /\ pc[p] = "update_lock"
    /\ WriteLockFree
    /\ writer' = Some(p)
    /\ Goto(p, "update_insert")
    /\ UNCHANGED <<dirExists, file, dbs, readers, arg, data, off, committed>>
    /\ UNCHANGED <<calls, whole, evars>>

memdb_update_insert(p) ==
    /\ pc[p] = "update_insert"
    /\ dbs' = MapInsert(dbs, arg[p][1].identifier, arg[p][1])
    /\ writer' = None
    /\ Return(p, "memdb_update", arg[p], Ret("Modified", None))
    /\ UNCHANGED <<dirExists, file, readers, committed>>
    /\ UNCHANGED <<calls, whole, evars>>

memdb_update(p) ==
    \/ \E values \in DBValues : memdb_update_check(p, values)
    \/ memdb_update_lock(p)
    \/ memdb_update_insert(p)

\* ----------------------------------------------------------------- memdb_rm

memdb_rm_call(p, key) ==
    /\ Shared(p)
    /\ Goto(p, "rm_lock")
    /\ arg' = [arg EXCEPT ![p] = << [key |-> key] >>]
    /\ UNCHANGED <<dirExists, file, dbs, readers, writer, data, off, committed>>
    /\ Call
    /\ UNCHANGED <<whole, evars>>

\* memdb_rm_lock as it would be if the write guard did not wait for readers.
memdb_rm_lock_no_wait(p) ==
    /\ pc[p] = "rm_lock"
    /\ writer = None
    /\ writer' = Some(p)
    /\ Goto(p, "rm_remove")
    /\ UNCHANGED <<dirExists, file, dbs, readers, arg, data, off, committed>>
    /\ UNCHANGED <<calls, whole, evars>>

\* let mut lock = self.dbs.write().await;
memdb_rm_lock(p) ==
    /\ pc[p] = "rm_lock"
    /\ WriteLockFree
    /\ writer' = Some(p)
    /\ Goto(p, "rm_remove")
    /\ UNCHANGED <<dirExists, file, dbs, readers, arg, data, off, committed>>
    /\ UNCHANGED <<calls, whole, evars>>

\* memdb_rm_remove as it would be if the map were cleared instead of one key removed.
memdb_rm_remove_clear(p) ==
    /\ pc[p] = "rm_remove"
    /\ LET key == arg[p][1].key
       IN  IF key \in DOMAIN dbs
           THEN /\ dbs' = EmptyMap
                /\ Return(p, "memdb_rm", arg[p], Ret("Deleted", Some(dbs[key])))
           ELSE /\ dbs' = dbs
                /\ Return(p, "memdb_rm", arg[p], Ret("KeyNotFound", None))
    /\ writer' = None
    /\ UNCHANGED <<dirExists, file, readers, committed>>
    /\ UNCHANGED <<calls, whole, evars>>

\* match lock.remove(key) { Some(val) => (Deleted, Some(val)), None => (KeyNotFound, None) }
memdb_rm_remove(p) ==
    /\ pc[p] = "rm_remove"
    /\ LET key == arg[p][1].key
       IN  IF key \in DOMAIN dbs
           THEN /\ dbs' = MapRemove(dbs, key)
                /\ Return(p, "memdb_rm", arg[p], Ret("Deleted", Some(dbs[key])))
           ELSE /\ dbs' = dbs
                /\ Return(p, "memdb_rm", arg[p], Ret("KeyNotFound", None))
    /\ writer' = None
    /\ UNCHANGED <<dirExists, file, readers, committed>>
    /\ UNCHANGED <<calls, whole, evars>>

memdb_rm(p) ==
    \/ \E key \in Idents : memdb_rm_call(p, key)
    \/ memdb_rm_lock(p)
    \/ memdb_rm_remove(p)

\* ------------------------------------------------------------ specification

Step(p) ==
    \/ create(p)
    \/ commit(p)
    \/ init(p)
    \/ memdb_add(p)
    \/ memdb_update(p)
    \/ memdb_rm(p)

Next == \E p \in Tasks : Step(p)

Spec == Init /\ [][Next]_vars

\* One caller, one operation at a time.
NextSeq == Step("t1")

SeqSpec == Init /\ [][NextSeq]_vars

\* The steps of an operation task p has called: what the executor runs when
\* it polls the task.
Progress(p) ==
    \/ commit_lock(p) \/ commit_write(p) \/ commit_sync(p)
    \/ init_read(p) \/ init_lock(p) \/ init_swap(p)
    \/ memdb_add_lock(p) \/ memdb_add_insert(p)
    \/ memdb_update_lock(p) \/ memdb_update_insert(p)
    \/ memdb_rm_lock(p) \/ memdb_rm_remove(p)

\* Two named databases, as new() and identifier(name) leave them at one
\* instant; their names take the same number of bytes in the file.
NamedIdents == {"a", "b"}

NamedDBs == {TuringFeedsDB(id, 1, None) : id \in NamedIdents}

\* The repository used with the named databases only.
NamedStep(p) ==
    \/ create(p)
    \/ commit(p)
    \/ init(p)
    \/ \E values \in NamedDBs : memdb_add_check(p, values)
    \/ memdb_add_lock(p)
    \/ memdb_add_insert(p)
    \/ \E values \in NamedDBs : memdb_update_check(p, values)
    \/ memdb_update_lock(p)
    \/ memdb_update_insert(p)
    \/ \E key \in NamedIdents : memdb_rm_call(p, key)
    \/ memdb_rm_lock(p)
    \/ memdb_rm_remove(p)

NamedNext == \E p \in Tasks : NamedStep(p)

NamedSpec == Init /\ [][NamedNext]_vars

\* Largest number of operations called in a run under fair scheduling.
MaxFairCalls == 4

\* The repository used with the named databases: operations are called while
\* fewer than MaxFairCalls have been, and the ones called go on.
FairStep(p) ==
    \/ calls < MaxFairCalls /\ NamedStep(p)
    \/ Progress(p)

FairNext == \E p \in Tasks : FairStep(p)

\* Fair scheduling: a task that can go on inside an operation is polled again.
FairSpec == Init /\ [][FairNext]_vars /\ \A p \in Tasks : WF_vars(Progress(p))

\* ------------------------------------------------- databases and documents

\* Largest instant the clock reaches while values are built.
MaxClock == 3

\* Document identifiers: what RandIdentifier::build() returns or id() is given.
DocIdents == {"x", "y"}

\* TuringFeedsDB::new(), called at instant t.
TuringFeedsDB_new(t) == TuringFeedsDB("", t, None)

\* TuringFeedsDB::identifier(self, key)
TuringFeedsDB_identifier(self, key) == [self EXCEPT !.identifier = key]

\* add as it would be if a document already stored under the identifier
\* were kept (entry().or_insert()).
TuringFeedsDB_add_if_absent(self, values, t) ==
    IF self.document_list # None
    THEN [self EXCEPT !.datetime = t,
                      !.document_list =
                          IF values.identifier \in DOMAIN self.document_list[1]
                          THEN self.document_list
                          ELSE Some(MapInsert(self.document_list[1], values.identifier, values))]
    ELSE [self EXCEPT !.datetime = t,
                      !.document_list = Some(MapInsert(EmptyMap, values.identifier, values))]

\* add as it would be if replacing a stored document left datetime alone.
TuringFeedsDB_add_stamp_new_only(self, values, t) ==
    IF self.document_list # None
    THEN [self EXCEPT !.datetime = IF values.identifier \in DOMAIN self.document_list[1]
                                   THEN self.datetime ELSE t,
                      !.document_list = Some(MapInsert(self.document_list[1], values.identifier, values))]
    ELSE [self EXCEPT !.datetime = t,
                      !.document_list = Some(MapInsert(EmptyMap, values.identifier, values))]

\* TuringFeedsDB::add(self, values), called at instant t.
TuringFeedsDB_add(self, values, t) ==
    IF self.document_list # None
    THEN [self EXCEPT !.datetime = t,
                      !.document_list = Some(MapInsert(self.document_list[1], values.identifier, values))]
    ELSE [self EXCEPT !.datetime = t,
                      !.document_list = Some(MapInsert(EmptyMap, values.identifier, values))]

\* rm as it would be if removing the last document dropped the map.
TuringFeedsDB_rm_drop_map(self, key, t) ==
    IF self.document_list # None
    THEN IF key \in DOMAIN self.document_list[1]
         THEN << "Deleted", [self EXCEPT !.datetime = t,
                                         !.document_list =
                                             IF DOMAIN self.document_list[1] = {key} THEN None
                                             ELSE Some(MapRemove(self.document_list[1], key))] >>
         ELSE << "KeyNotFound", self >>
    ELSE << "Empty", self >>

\* rm as it would be if a missing key refreshed datetime as well.
TuringFeedsDB_rm_touch(self, key, t) ==
    IF self.document_list # None
    THEN IF key \in DOMAIN self.document_list[1]
         THEN << "Deleted", [self EXCEPT !.datetime = t,
                                         !.document_list = Some(MapRemove(self.document_list[1], key))] >>
         ELSE << "KeyNotFound", [self EXCEPT !.datetime = t] >>
    ELSE << "Empty", self >>

\* TuringFeedsDB::rm(self, key), called at instant t: the pair (DbOps, Self).
TuringFeedsDB_rm(self, key, t) ==
    IF self.document_list # None
    THEN IF key \in DOMAIN self.document_list[1]
         THEN << "Deleted", [self EXCEPT !.datetime = t,
                                         !.document_list = Some(MapRemove(self.document_list[1], key))] >>
         ELSE << "KeyNotFound", self >>
    ELSE << "Empty", self >>

\* TFDocument::new(), called at instant t; id is what RandIdentifier::build() gave.
TFDocument_new(id, t) == TFDocument(id, t, t)

\* TFDocument::id(self, value)
TFDocument_id(self, value) == [self EXCEPT !.identifier = value]

\* modified_time as it would be if it stamped both instants.
TFDocument_modified_time_both(self, t) == [self EXCEPT !.modified_time = t, !.create_time = t]

\* TFDocument::modified_time(self), called at instant t.
TFDocument_modified_time(self, t) == [self EXCEPT !.modified_time = t]

\* The builder call op made in the last step: its key argument, the DbOps
\* code it returned, whether the key was in the document map before the call
\* and the database's datetime before the call.
Built(op, key, code, had, dt0) == [op |-> op, key |-> key, code |-> code, had |-> had, dt0 |-> dt0]

\* Whether key is in the document map of database d.
HasDoc(d, key) == d.document_list # None /\ key \in DOMAIN d.document_list[1]

\* Time passes: TAI64N::now() returns a later instant, never an earlier one.
tick ==
    /\ now < MaxClock
    /\ now' = now + 1
    /\ eret' = NoEret
    /\ UNCHANGED <<db, doc, rvars>>

db_new ==
    /\ db' = Some(TuringFeedsDB_new(now))
    /\ eret' = Built("new", "", "", FALSE, 0)
    /\ UNCHANGED <<now, doc, rvars>>

db_identifier(key) ==
    /\ db # None
    /\ db' = Some(TuringFeedsDB_identifier(db[1], key))
    /\ eret' = Built("identifier", key, "", FALSE, db[1].datetime)
    /\ UNCHANGED <<now, doc, rvars>>

\* db.add(doc): the document moves into the database.
db_add ==
    /\ db # None /\ doc # None
    /\ db' = Some(TuringFeedsDB_add(db[1], doc[1], now))
    /\ doc' = None
    /\ eret' = Built("add", doc[1].identifier, "", HasDoc(db[1], doc[1].identifier), db[1].datetime)
    /\ UNCHANGED <<now, rvars>>

db_rm(key) ==
    /\ db # None
    /\ db' = Some(TuringFeedsDB_rm(db[1], key, now)[2])
    /\ eret' = Built("rm", key, TuringFeedsDB_rm(db[1], key, now)[1], HasDoc(db[1], key), db[1].datetime)
    /\ UNCHANGED <<now, doc, rvars>>

doc_new(id) ==
    /\ doc' = Some(TFDocument_new(id, now))
    /\ eret' = Built("doc_new", id, "", FALSE, 0)
    /\ UNCHANGED <<now, db, rvars>>

doc_id(value) ==
    /\ doc # None
    /\ doc' = Some(TFDocument_id(doc[1], value))
    /\ eret' = Built("doc_id", value, "", FALSE, 0)
    /\ UNCHANGED <<now, db, rvars>>

doc_modified_time ==
    /\ doc # None
    /\ doc' = Some(TFDocument_modified_time(doc[1], now))
    /\ eret' = Built("doc_modified_time", "", "", FALSE, 0)
    /\ UNCHANGED <<now, db, rvars>>

\* A caller builds database and document values; the repository is not used.
EntNext ==
    \/ tick
    \/ db_new
    \/ \E key \in Idents : db_identifier(key)
    \/ db_add
    \/ \E key \in DocIdents : db_rm(key)
    \/ \E id \in DocIdents : doc_new(id)
    \/ \E value \in DocIdents : doc_id(value)
    \/ doc_modified_time

EntSpec == Init /\ [][EntNext]_vars

\* ------------------------------------------------------------------- claims

\* A call of operation op returned in the last step.
JustReturned(op) == ret.op = op

\* C1: round trip.  An init that returns while the last activity on the
\* snapshot file is a commit that returned WriteTrue (init's own I/O having
\* worked) succeeds and leaves the in-memory map equal to the committed map,
\* whatever earlier commits wrote to the file.
C1_RoundTrip ==
    (JustReturned("init") /\ ret.res.code # "IoError" /\ committed # None)
        => (ret.res.code = "InitOk" /\ dbs = committed[1])

\* C2: commit is a full-state overwrite.  While the last activity on the
\* snapshot file is a commit that returned WriteTrue, the content of the file
\* is exactly a serialization of the committed map, with nothing left over.
C2_FullOverwrite ==
    committed # None => (file # None /\ file[1] \in Serialize(committed[1]))

C5_InitFailure ==
    [][\A p \in Tasks :
          /\ (pc[p] = "idle" /\ pc'[p] = "init_read") => file # None
          /\ (pc[p] = "idle" /\ ret'.op = "init" /\ ret'.task = p /\ file = None)
                => (ret'.res = IoError("NotFound"))
          /\ (pc[p] = "init_read" /\ pc'[p] # "init_read" /\ ~Deserialize(file[1]).ok)
                => (ret'.op = "init" /\ ret'.res.code \in {"RonDeError", "IoError"})
          /\ (pc[p] = "init_read" /\ pc'[p] = "init_lock")
                => (Deserialize(file[1]).ok /\ data'[p] = Deserialize(file[1]).val)
          /\ (ret'.op = "init" /\ ret'.res.code # "InitOk") => dbs' = dbs]_vars

\* An init found the content of the file malformed and returned the
\* deserialization error; the map, which is not empty, was not replaced.
C5_Witness ==
    /\ JustReturned("init")
    /\ ret.res.code = "RonDeError"
    /\ file # None
    /\ file[1] # <<>>
    /\ dbs # EmptyMap

\* C6: a commit serializes the map of one instant.  From the moment a commit
\* has its read view until its write and flush have finished, no task holds
\* the write guard and the map is the one the commit serialized.
C6_CommitSnapshot ==
    /\ \A p \in Tasks : pc[p] \in {"commit_write", "commit_sync"} <=> p \in readers
    /\ \A p \in readers : writer = None /\ data[p] \in Serialize(dbs)

\* A commit is in the middle of its write while a memdb_rm of a stored key
\* waits for the write guard.
C6_Witness ==
    \E p, q \in Tasks :
       /\ pc[p] = "commit_write"
       /\ off[p] > 0
       /\ pc[q] = "rm_lock"
       /\ arg[q][1].key \in DOMAIN dbs

CreateOutcome(res) == IF res.code = "CreateTrue" THEN "Ok" ELSE res.kind

\* C9: create reports each of its outcomes by a code of its own.  The code
\* create has returned is the code of no other outcome: already-exists,
\* permission-denied and interrupted differ from success, from each other and
\* from the generic I/O failure.
C9_CreateOutcomesDistinct ==
    JustReturned("create") =>
        \A other \in AllDirOutcomes \ {CreateOutcome(ret.res)} :
            CreateResult(other).code # ret.res.code

\* C10: commit and init never create the root directory.  While the
\* directory does not exist there is no snapshot file, no commit or init gets
\* past its open, and a commit or init that returns has returned an I/O error
\* and left the map and the (absent) file as they were.
C10_NeedsCreate ==
    [][~dirExists =>
          /\ file = None
          /\ \A p \in Tasks : pc[p] = "idle"
                => pc'[p] \notin {"commit_lock", "init_read"}
          /\ ret'.op \in {"commit", "init"}
                => (ret'.res.code = "IoError" /\ dbs' = dbs /\ file' = None)]_vars

\* A commit made before any create returned the I/O error; the map is not
\* empty and there is no file.
C10_Witness ==
    /\ ~dirExists
    /\ JustReturned("commit")
    /\ ret.res.code = "IoError"
    /\ dbs # EmptyMap
    /\ file = None

\* C11: commit returns WriteTrue only from the flush, reached after the whole
\* serialized text of the map it holds the read guard of has been written;
\* a commit that does not get that far returns an I/O error; and no return
\* of commit changes the in-memory map.
C11_CommitSuccess ==
    [][ret'.op = "commit" =>
          /\ dbs' = dbs
          /\ ret'.res.code \in {"WriteTrue", "IoError"}
          /\ ret'.res.code = "WriteTrue" =>
                /\ pc[ret'.task] = "commit_sync"
                /\ off[ret'.task] = Len(data[ret'.task])
                /\ data[ret'.task] \in Serialize(dbs)
          /\ pc[ret'.task] # "commit_sync" => ret'.res.code = "IoError"]_vars

\* A commit of a map of two databases returned WriteTrue and the file holds it.
C11_Witness ==
    /\ JustReturned("commit") /\ ret.res.code = "WriteTrue"
    /\ Cardinality(DOMAIN dbs) = 2
    /\ file # None /\ file[1] \in Serialize(dbs)

\* The document map of database d, empty when d has none.
DocsOf(d) == IF d.document_list = None THEN EmptyMap ELSE d.document_list[1]

\* C12: Database.add(doc) inserts unconditionally.  After add the document
\* map exists, holds doc under doc's identifier (replacing what was stored
\* there), has no other new key, and every entry under another identifier is
\* as it was.
C12_AddInserts ==
    [][eret'.op = "add" =>
          LET values == doc[1]
              old == DocsOf(db[1])
          IN  /\ db'[1].document_list # None
              /\ DOMAIN DocsOf(db'[1]) = DOMAIN old \cup {values.identifier}
              /\ DocsOf(db'[1])[values.identifier] = values
              /\ \A k \in DOMAIN old \ {values.identifier} : DocsOf(db'[1])[k] = old[k]
              /\ db'[1].identifier = db[1].identifier]_vars

\* add replaced the document stored under "x" by one with other instants,
\* next to a document stored under "y".
C12_Witness ==
    /\ eret.op = "add" /\ eret.had /\ eret.key = "x"
    /\ DOMAIN DocsOf(db[1]) = {"x", "y"}
    /\ DocsOf(db[1])["x"].create_time = MaxClock
    /\ DocsOf(db[1])["y"].create_time = 1

\* C13: Database.rm(id) returns Empty exactly when the database has no
\* document map, which is exactly when no document was ever added to it
\* (new() makes none, add makes one, identifier and rm never make or drop
\* one), and then leaves the database as it was; KeyNotFound when there is a
\* map without id, leaving the database as it was; Deleted when id was
\* stored, removing exactly that entry and setting datetime to now.
C13_RmOutcomes ==
    [][/\ eret'.op = "new" => db'[1].document_list = None
       /\ eret'.op = "add" => db'[1].document_list # None
       /\ eret'.op \in {"identifier", "rm"} =>
             (db'[1].document_list = None <=> db[1].document_list = None)
       /\ eret'.op = "rm" =>
             LET self == db[1]
                 key == eret'.key
             IN  CASE self.document_list = None ->
                        eret'.code = "Empty" /\ db'[1] = self
                   [] self.document_list # None /\ key \notin DOMAIN DocsOf(self) ->
                        eret'.code = "KeyNotFound" /\ db'[1] = self
                   [] OTHER ->
                        /\ eret'.code = "Deleted"
                        /\ db'[1] = [self EXCEPT !.datetime = now,
                                                 !.document_list = Some(MapRemove(DocsOf(self), key))]
                        /\ key \notin DOMAIN DocsOf(db'[1])]_vars

\* rm returned KeyNotFound on a database whose last document had been removed.
C13_Witness ==
    /\ eret.op = "rm" /\ eret.code = "KeyNotFound"
    /\ db[1].document_list = Some(EmptyMap)

\* C14: every add sets datetime to a value strictly greater than the value
\* it had before the call.
C14_AddStrictlyLater ==
    [][eret'.op = "add" => db'[1].datetime > db[1].datetime]_vars

\* C14 as amended: every add, whether the identifier was new or stored, sets
\* datetime to the instant now() returns during the call; that instant is
\* never before the value datetime had, and it is after it exactly when the
\* clock has advanced since that value was set.
C14_AddStampsNow ==
    [][eret'.op = "add" =>
          /\ db'[1].datetime = now
          /\ db'[1].datetime >= db[1].datetime
          /\ (db'[1].datetime > db[1].datetime) <=> (now > db[1].datetime)]_vars

\* add replaced a stored document after the clock had advanced.
C14_Witness ==
    /\ eret.op = "add" /\ eret.had
    /\ db[1].datetime > eret.dt0

\* C15: over identifier / add / rm calls on a database, datetime never
\* decreases and changes only on add and on an rm that returns Deleted;
\* identifier, an rm returning KeyNotFound and an rm returning Empty leave
\* datetime and the document map as they were.
C15_DatetimeMonotone ==
    [][eret'.op \in {"identifier", "add", "rm"} =>
          /\ db'[1].datetime >= db[1].datetime
          /\ db'[1].datetime # db[1].datetime =>
                (eret'.op = "add" \/ (eret'.op = "rm" /\ eret'.code = "Deleted"))
          /\ (eret'.op = "identifier" \/ eret'.code \in {"KeyNotFound", "Empty"}) =>
                /\ db'[1].datetime = db[1].datetime
                /\ db'[1].document_list = db[1].document_list]_vars

\* rm returned KeyNotFound after the clock had advanced past datetime, which
\* is what it was before the call.
C15_Witness ==
    /\ eret.op = "rm" /\ eret.code = "KeyNotFound"
    /\ DocsOf(db[1]) # EmptyMap
    /\ db[1].datetime = eret.dt0 /\ db[1].datetime < now

\* C16: new() sets create_time and modified_time to the same instant; id and
\* modified_time leave create_time as it is; and modified_time is never
\* before create_time.
C16_DocumentTimes ==
    [][/\ eret'.op = "doc_new" =>
             (doc'[1].create_time = now /\ doc'[1].modified_time = doc'[1].create_time)
       /\ eret'.op \in {"doc_id", "doc_modified_time"} =>
             doc'[1].create_time = doc[1].create_time
       /\ doc' # None => doc'[1].modified_time >= doc'[1].create_time]_vars

\* modified_time() was called after the clock had advanced past create_time.
C16_Witness ==
    /\ eret.op = "doc_modified_time"
    /\ doc[1].modified_time > doc[1].create_time

\* C17: every key of the repository map is a non-empty string.
C17_NoEmptyKey == "" \notin DOMAIN dbs

\* C18: the file init reads and parses is the whole text of one commit, never
\* a text that commits have only partly overwritten; the parsed map is the
\* one init goes on to install.
C18_InitReadsOneCommit ==
    [][\A p \in Tasks : (pc[p] = "init_read" /\ pc'[p] = "init_lock") => whole]_vars

\* C19: every entry of the repository map is stored under its own
\* identifier, and so is every entry of every document map.
C19_KeysAreIdentifiers ==
    /\ \A k \in DOMAIN dbs :
          /\ dbs[k].identifier = k
          /\ \A d \in DOMAIN DocsOf(dbs[k]) : DocsOf(dbs[k])[d].identifier = d
    /\ db # None => \A d \in DOMAIN DocsOf(db[1]) : DocsOf(db[1])[d].identifier = d

\* The positions at which a task holds the write guard, and the read guard.
WritePcs == {"add_insert", "update_insert", "rm_remove", "init_swap"}

ReadPcs == {"commit_write", "commit_sync"}

====
